---------------------------- MODULE Spec2Model ----------------------------
(***************************************************************************)
(* A model of src/wb_gad_helper.py (worldbank/WB_GAD).                     *)
(*                                                                         *)
(* Three specifications share the variables below:                         *)
(*   SpecWB     get_wb_classifications / get_wb_classifications_strict     *)
(*   SpecMerge  merge_id_columns                                           *)
(*   SpecQA     check_duplicates / evaluate_duplicate_names                *)
(*                                                                         *)
(* A Python str is a tuple of one-character strings, so that split, join   *)
(* and sorted act on characters as they do in Python.  None / NaN is the   *)
(* one-element tuple NoneV, whose element is not a character.              *)
(***************************************************************************)
EXTENDS Integers, Sequences, FiniteSets, TLC

VARIABLES
    pc,            \* position of the running call ("idle" between calls)
    fn,            \* name of the function being run
    raised,        \* exception that ended the call, "none" otherwise
    n_requests,    \* requests.get calls issued by the current call
    type_to_keep,  \* argument of get_wb_classifications_strict
    code_data,     \* local: flattened Code_URN strings
    res_split,     \* local: the long table
    region_codes,  \* local: ids of the H_WB_REGIONS hierarchy
    income_codes,  \* local: ids of the H_WB_INCOME hierarchy
    wide,          \* local: the pivoted table
    ret,           \* value returned by the call
    in_df,         \* the data frame handed to a QA helper (mutated in place)
    col_def,       \* merge_id_columns: loop variable of "for col_def in col_defs"
    drop_orig,     \* merge_id_columns: argument
    n_done,        \* merge_id_columns: pairs of col_defs processed so far
    sys_stdout,    \* sys.stdout: id of the stream print() writes to
    handles,       \* file objects alive: id -> [path, closed]
    files,         \* file system: path -> content
    frame          \* arguments and locals of the running QA helper call

vars == <<pc, fn, raised, n_requests, type_to_keep, code_data, res_split,
          region_codes, income_codes, wide, ret, in_df, col_def, drop_orig,
          n_done, sys_stdout, handles, files, frame>>

mergeVars == <<in_df, col_def, drop_orig, n_done>>
qaVars == <<sys_stdout, handles, files, frame>>

-----------------------------------------------------------------------------
(* Bounds of the model.                                                    *)

\* longest list of leaf URNs a hierarchy response holds
MaxUrns == 3

\* most rows of a data frame handed to merge_id_columns
MaxMergeRows == 2

\* longest col_defs list handed to merge_id_columns
MaxPairs == 2

\* most rows of a data frame handed to check_duplicates or
\* evaluate_duplicate_names
MaxQARows == 4

-----------------------------------------------------------------------------
(* Python values: None, str, and the str methods the module calls.         *)

NoneV == <<"None">>

IsNull(x) == x = NoneV

\* The characters in use, in ascending code point order.
Ascii == <<"(", ")", ",", ".", "A", "B", "C", "D", "E", "F", "G", "H", "I",
           "J", "K", "L", "M", "N", "O", "P", "Q", "R", "S", "T", "U", "V",
           "W", "X", "Y", "Z">>

Ord(c) == CHOOSE i \in 1..Len(Ascii) : Ascii[i] = c

Min(a, b) == IF a <= b THEN a ELSE b

ToSet(s) == { s[i] : i \in 1..Len(s) }

\* str.__lt__: lexicographic by code point, a proper prefix first.
StrLess(a, b) ==
    \/ Len(a) < Len(b) /\ \A j \in 1..Len(a) : a[j] = b[j]
    \/ \E k \in 1..Min(Len(a), Len(b)) :
          /\ \A j \in 1..(k - 1) : a[j] = b[j]
          /\ Ord(a[k]) < Ord(b[k])

\* str.split(d) for a one-character separator d: never an empty list.
RECURSIVE StrSplit(_, _)
StrSplit(s, d) ==
    IF \A i \in 1..Len(s) : s[i] # d
    THEN <<s>>
    ELSE LET k == CHOOSE i \in 1..Len(s) :
                     s[i] = d /\ \A j \in 1..(i - 1) : s[j] # d
         IN  <<SubSeq(s, 1, k - 1)>> \o StrSplit(SubSeq(s, k + 1, Len(s)), d)

\* d.join(parts)
RECURSIVE StrJoin(_, _)
StrJoin(parts, d) ==
    IF Len(parts) = 0 THEN <<>>
    ELSE IF Len(parts) = 1 THEN parts[1]
    ELSE parts[1] \o <<d>> \o StrJoin(Tail(parts), d)

\* sorted(S) for a set of str
RECURSIVE Sorted(_)
Sorted(S) ==
    IF S = {} THEN <<>>
    ELSE LET m == CHOOSE x \in S : \A y \in S \ {x} : StrLess(x, y)
         IN  <<m>> \o Sorted(S \ {m})

\* urn.split(")")[-1]
AfterLastParen(urn) ==
    LET parts == StrSplit(urn, ")") IN parts[Len(parts)]

RECURSIVE SeqMax(_)
SeqMax(s) ==
    IF Len(s) = 0 THEN 0
    ELSE LET m == SeqMax(Tail(s)) IN IF s[1] >= m THEN s[1] ELSE m

-----------------------------------------------------------------------------
(* Inputs of the classification functions: what the remote service may     *)
(* answer.  A hierarchy response is modelled by the list of the "urn"      *)
(* strings of its third-level nodes, in traversal order; a region or       *)
(* income response by the list of the "id" strings the comprehension       *)
(* collects.                                                               *)

REGION == <<"R", "E", "G", "I", "O", "N">>
INCOME == <<"I", "N", "C", "O", "M", "E">>
CONTINENT == <<"C", "O", "N", "T", "I", "N", "E", "N", "T">>
IND == <<"I", "N", "D">>
PAK == <<"P", "A", "K">>

\* "W(V)" followed by the dotted path X.seg1.seg2...
RawUrn(segs) == <<"W", "(", "V", ")">> \o StrJoin(<<<<"X">>>> \o segs, ".")

UrnInputs ==
    { RawUrn(<<REGION, <<"B">>, IND>>),
      RawUrn(<<REGION, <<"A">>, IND>>),
      RawUrn(<<REGION, <<"A">>, PAK>>),
      RawUrn(<<INCOME, <<"L">>, IND, <<"Z">>>>),
      RawUrn(<<CONTINENT, <<"C">>, PAK>>),
      RawUrn(<<CONTINENT, <<"C", ",", "D">>, PAK>>),
      RawUrn(<<REGION, <<"A">>>>) }

RECURSIVE SeqsUpTo(_, _)
SeqsUpTo(S, n) ==
    IF n = 0 THEN { <<>> }
    ELSE LET shorter == SeqsUpTo(S, n - 1)
         IN  shorter \cup { Append(q, x) : q \in shorter, x \in S }

HierarchyResponses == SeqsUpTo(UrnInputs, MaxUrns)

RegionResponses == { <<>>, <<<<"A">>>>, <<<<"A">>, <<"B">>>> }

IncomeResponses == { <<>>, <<<<"L">>>> }

TypeToKeepInputs == { <<CONTINENT, REGION, INCOME>>, <<REGION>> }

-----------------------------------------------------------------------------
(* Data frames.  A frame is [cols: set of column labels, rows: sequence of *)
(* functions cols -> cell].                                                *)

EmptyFrame == [cols |-> {}, rows |-> <<>>]

\* rename(columns={1: "group", 2: "value", 3: "ISO3"}); other labels stay
ColName(k) ==
    CASE k = 1 -> "group"
      [] k = 2 -> "value"
      [] k = 3 -> "ISO3"
      [] OTHER -> ToString(k)

\* the comprehension collecting {"Code_URN": urn.split(")")[-1]}
Flatten(response) == [i \in 1..Len(response) |-> AfterLastParen(response[i])]

\* res["Code_URN"].str.split(".", expand=True), drop(columns=[0]), rename:
\* as many columns as the longest split, shorter rows padded with None.
SplitExpand(codes) ==
    LET parts == [i \in 1..Len(codes) |-> StrSplit(codes[i], ".")]
        ncols == SeqMax([i \in 1..Len(codes) |-> Len(parts[i])])
        names == { ColName(k) : k \in 1..(ncols - 1) }
        Label(c) == CHOOSE k \in 1..(ncols - 1) : ColName(k) = c
    IN  [cols |-> names,
         rows |-> [i \in 1..Len(codes) |->
                     [c \in names |->
                        IF Label(c) + 1 <= Len(parts[i])
                        THEN parts[i][Label(c) + 1] ELSE NoneV]]]

\* res_split[~((res_split["group"] == grp) & (~res_split["value"].isin(valid)))]
FilterGroup(t, grp, valid) ==
    LET Keep(r) == ~(r["group"] = grp /\ ~(r["value"] \in valid))
    IN  [cols |-> t.cols, rows |-> SelectSeq(t.rows, Keep)]

\* a filters dict that lost its "INCOME" entry
FilterInvalid_RegionOnly(t, regions, incomes) ==
    FilterGroup(t, REGION, ToSet(regions))

\* the loop over filters = {"REGION": set(region_codes), "INCOME": set(income_codes)}
FilterInvalid(t, regions, incomes) ==
    FilterGroup(FilterGroup(t, REGION, ToSet(regions)), INCOME, ToSet(incomes))

\* aggfunc=lambda x: ",".join(x)
Aggfunc_Unsorted(x) == StrJoin(x, ",")

\* aggfunc="first"
Aggfunc_First(x) == x[1]

\* aggfunc=lambda x: ",".join(sorted(set(x)))
Aggfunc(x) == StrJoin(Sorted(ToSet(x)), ",")

\* pivot_table(index="ISO3", columns="group", values="value", aggfunc).reset_index():
\* rows with a missing key are left out of the groups; one row per ISO3 in
\* ascending order, one column per group, None where a pair has no row.
PivotTable(t) ==
    LET keyed == SelectSeq(t.rows,
                    LAMBDA r : ~IsNull(r["ISO3"]) /\ ~IsNull(r["group"]))
        isos == Sorted({ keyed[i]["ISO3"] : i \in 1..Len(keyed) })
        groups == { keyed[i]["group"] : i \in 1..Len(keyed) }
        Vals(iso, g) ==
            LET sel == SelectSeq(keyed,
                          LAMBDA r : r["ISO3"] = iso /\ r["group"] = g)
            IN  [i \in 1..Len(sel) |-> sel[i]["value"]]
    IN  [cols |-> groups,
         rows |-> [i \in 1..Len(isos) |->
                     [ISO3 |-> isos[i],
                      cells |-> [g \in groups |->
                                   IF Len(Vals(isos[i], g)) = 0 THEN NoneV
                                   ELSE Aggfunc(Vals(isos[i], g))]]]]

\* the projection followed by dropna(how="all") on the kept columns
Project_DropEmpty(w, keep) ==
    LET kept == SelectSeq(keep, LAMBDA c : c \in w.cols)
        some == SelectSeq(w.rows,
                   LAMBDA r : \E g \in ToSet(kept) : ~IsNull(r.cells[g]))
    IN  [cols |-> kept,
         rows |-> [i \in 1..Len(some) |->
                     [ISO3 |-> some[i].ISO3,
                      cells |-> [g \in ToSet(kept) |-> some[i].cells[g]]]]]

\* wide[["ISO3"] + [col for col in type_to_keep if col in wide.columns]]
Project(w, keep) ==
    LET kept == SelectSeq(keep, LAMBDA c : c \in w.cols)
    IN  [cols |-> kept,
         rows |-> [i \in 1..Len(w.rows) |->
                     [ISO3 |-> w.rows[i].ISO3,
                      cells |-> [g \in ToSet(kept) |-> w.rows[i].cells[g]]]]]

\* a GET that is issued twice
RequestsGet_Twice(n) == n + 2

\* one more blocking requests.get(url).json()
RequestsGet(n) == n + 1

-----------------------------------------------------------------------------
(* get_wb_classifications and get_wb_classifications_strict, statement by  *)
(* statement.                                                              *)

\* the paths the QA helpers are told to write to
LogFile == "duplicates.log"
OutFile == "duplicates.gpkg"

NoFile == [exists |-> FALSE, data |-> <<>>]

FreeHandle == [state |-> "free", path |-> "none"]

\* a fresh process: nothing called yet, sys.stdout is the console (stream 0),
\* no file object, no output file
Init ==
    /\ pc = "idle"
    /\ fn = "none"
    /\ raised = "none"
    /\ n_requests = 0
    /\ type_to_keep = <<>>
    /\ code_data = <<>>
    /\ res_split = EmptyFrame
    /\ region_codes = <<>>
    /\ income_codes = <<>>
    /\ wide = EmptyFrame
    /\ ret = NoneV
    /\ in_df = EmptyFrame
    /\ col_def = <<>>
    /\ drop_orig = FALSE
    /\ n_done = 0
    /\ sys_stdout = 0
    /\ handles = [h \in {1, 2} |-> FreeHandle]
    /\ files = [p \in {LogFile, OutFile} |-> NoFile]
    /\ frame = <<>>

CallLong ==
    /\ pc = "idle"
    /\ pc' = "fetch_ref"
    /\ fn' = "get_wb_classifications"
    /\ UNCHANGED <<raised, n_requests, type_to_keep, code_data, res_split,
                   region_codes, income_codes, wide, ret>>
    /\ UNCHANGED <<mergeVars, qaVars>>

CallStrict ==
    /\ pc = "idle"
    /\ \E keep \in TypeToKeepInputs : type_to_keep' = keep
    /\ pc' = "fetch_ref"
    /\ fn' = "get_wb_classifications_strict"
    /\ UNCHANGED <<raised, n_requests, code_data, res_split, region_codes,
                   income_codes, wide, ret>>
    /\ UNCHANGED <<mergeVars, qaVars>>

\* lines 27-34 and 89-95: the GET of H_REF_AREA_GROUPS, then the flattening
FetchRefAreaGroups ==
    /\ pc = "fetch_ref"
    /\ \E response \in HierarchyResponses : code_data' = Flatten(response)
    /\ n_requests' = RequestsGet(n_requests)
    /\ pc' = "split"
    /\ UNCHANGED <<fn, raised, type_to_keep, res_split, region_codes,
                   income_codes, wide, ret>>
    /\ UNCHANGED <<mergeVars, qaVars>>

\* lines 36-43: pd.DataFrame([]) has no "Code_URN" column
LongSplit ==
    /\ pc = "split"
    /\ fn = "get_wb_classifications"
    /\ IF code_data = <<>>
       THEN /\ raised' = "KeyError"
            /\ UNCHANGED <<res_split, ret>>
       ELSE /\ res_split' = SplitExpand(code_data)
            /\ ret' = res_split'
            /\ UNCHANGED raised
    /\ pc' = "done"
    /\ UNCHANGED <<fn, n_requests, type_to_keep, code_data, region_codes,
                   income_codes, wide>>
    /\ UNCHANGED <<mergeVars, qaVars>>

\* lines 98-103
StrictSplit ==
    /\ pc = "split"
    /\ fn = "get_wb_classifications_strict"
    /\ IF code_data = <<>>
       THEN /\ raised' = "KeyError"
            /\ pc' = "done"
            /\ UNCHANGED res_split
       ELSE /\ res_split' = SplitExpand(code_data)
            /\ pc' = "fetch_regions"
            /\ UNCHANGED raised
    /\ UNCHANGED <<fn, n_requests, type_to_keep, code_data, region_codes,
                   income_codes, wide, ret>>
    /\ UNCHANGED <<mergeVars, qaVars>>

\* lines 106-111
FetchRegions ==
    /\ pc = "fetch_regions"
    /\ \E response \in RegionResponses : region_codes' = response
    /\ n_requests' = RequestsGet(n_requests)
    /\ pc' = "fetch_income"
    /\ UNCHANGED <<fn, raised, type_to_keep, code_data, res_split,
                   income_codes, wide, ret>>
    /\ UNCHANGED <<mergeVars, qaVars>>

\* lines 114-115
FetchIncome ==
    /\ pc = "fetch_income"
    /\ \E response \in IncomeResponses : income_codes' = response
    /\ n_requests' = RequestsGet(n_requests)
    /\ pc' = "filter"
    /\ UNCHANGED <<fn, raised, type_to_keep, code_data, res_split,
                   region_codes, wide, ret>>
    /\ UNCHANGED <<mergeVars, qaVars>>

\* lines 118-125: res_split["group"] / ["value"] of a frame without them
StrictFilter ==
    /\ pc = "filter"
    /\ IF {"group", "value"} \subseteq res_split.cols
       THEN /\ res_split' = FilterInvalid(res_split, region_codes, income_codes)
            /\ pc' = "pivot"
            /\ UNCHANGED raised
       ELSE /\ raised' = "KeyError"
            /\ pc' = "done"
            /\ UNCHANGED res_split
    /\ UNCHANGED <<fn, n_requests, type_to_keep, code_data, region_codes,
                   income_codes, wide, ret>>
    /\ UNCHANGED <<mergeVars, qaVars>>

\* lines 128-136
StrictPivot ==
    /\ pc = "pivot"
    /\ IF "ISO3" \in res_split.cols
       THEN /\ wide' = PivotTable(res_split)
            /\ pc' = "project"
            /\ UNCHANGED raised
       ELSE /\ raised' = "KeyError"
            /\ pc' = "done"
            /\ UNCHANGED wide
    /\ UNCHANGED <<fn, n_requests, type_to_keep, code_data, res_split,
                   region_codes, income_codes, ret>>
    /\ UNCHANGED <<mergeVars, qaVars>>

\* line 139
StrictReturn ==
    /\ pc = "project"
    /\ ret' = Project(wide, type_to_keep)
    /\ pc' = "done"
    /\ UNCHANGED <<fn, raised, n_requests, type_to_keep, code_data, res_split,
                   region_codes, income_codes, wide>>
    /\ UNCHANGED <<mergeVars, qaVars>>

NextWB ==
    \/ CallLong
    \/ CallStrict
    \/ FetchRefAreaGroups
    \/ LongSplit
    \/ StrictSplit
    \/ FetchRegions
    \/ FetchIncome
    \/ StrictFilter
    \/ StrictPivot
    \/ StrictReturn

SpecWB == Init /\ [][NextWB]_vars

-----------------------------------------------------------------------------
(* Properties of the classification functions.                             *)

StrictReturned ==
    fn = "get_wb_classifications_strict" /\ pc = "done" /\ raised = "none"

\* the long table as it was split, before the whitelist filter
Unfiltered == SplitExpand(code_data)

FilterDone ==
    /\ fn = "get_wb_classifications_strict"
    /\ pc \in {"pivot", "project"} \/ (pc = "done" /\ raised = "none")

RemovedByWhitelist(r) ==
    \/ r["group"] = REGION /\ r["value"] \notin ToSet(region_codes)
    \/ r["group"] = INCOME /\ r["value"] \notin ToSet(income_codes)

\* C1: the whitelist filter removes exactly the REGION rows whose value is
\* not a region code and the INCOME rows whose value is not an income code;
\* every other row is kept, unchanged and in order.
C1_FilterRemovesExactlyInvalid ==
    FilterDone =>
        /\ res_split.cols = Unfiltered.cols
        /\ res_split.rows =
              SelectSeq(Unfiltered.rows, LAMBDA r : ~RemovedByWhitelist(r))

C1_Witness ==
    /\ FilterDone
    /\ Len(res_split.rows) < Len(Unfiltered.rows)
    /\ \E i \in 1..Len(Unfiltered.rows) :
          Unfiltered.rows[i]["group"] = INCOME
          /\ RemovedByWhitelist(Unfiltered.rows[i])
    /\ \E i \in 1..Len(res_split.rows) : res_split.rows[i]["group"] = REGION
    /\ \E i \in 1..Len(res_split.rows) : res_split.rows[i]["group"] = CONTINENT

\* the ISO3 values of the filtered long table (a missing ISO3 is no value)
SurvivingIso3 ==
    { res_split.rows[i]["ISO3"] : i \in 1..Len(res_split.rows) } \ {NoneV}

ReturnedIso3 == { ret.rows[i].ISO3 : i \in 1..Len(ret.rows) }

\* C2: the returned wide table has exactly one row per distinct ISO3 of the
\* filtered long table, also for an ISO3 none of whose rows is of a kept group.
C2_OneRowPerSurvivingIso3 ==
    StrictReturned =>
        /\ ReturnedIso3 = SurvivingIso3
        /\ Len(ret.rows) = Cardinality(SurvivingIso3)

C2_Witness ==
    /\ StrictReturned
    /\ type_to_keep = <<REGION>>
    /\ Cardinality(ReturnedIso3) = 2
    /\ \E i \in 1..Len(ret.rows) :
          /\ ret.rows[i].ISO3 = PAK
          /\ \A g \in ToSet(ret.cols) : IsNull(ret.rows[i].cells[g])

\* the values the filtered long table holds for one (ISO3, group) pair
ValuesOf(iso, g) ==
    { res_split.rows[i]["value"] :
        i \in { j \in 1..Len(res_split.rows) :
                  res_split.rows[j]["ISO3"] = iso
                  /\ res_split.rows[j]["group"] = g } }

\* the elements of S, each once, the i-th being the one with i-1 smaller ones
Ascending(S) ==
    [i \in 1..Cardinality(S) |->
        CHOOSE x \in S : Cardinality({ y \in S : StrLess(y, x) }) = i - 1]

\* C3: a cell of a kept column is the distinct values of its (ISO3, group)
\* pair in ascending order joined with ",", and None when the pair has no row.
C3_CellIsSortedDistinctJoin ==
    StrictReturned =>
        \A i \in 1..Len(ret.rows) : \A g \in ToSet(ret.cols) :
            LET S == ValuesOf(ret.rows[i].ISO3, g)
            IN  IF S = {} THEN IsNull(ret.rows[i].cells[g])
                ELSE ret.rows[i].cells[g] = StrJoin(Ascending(S), ",")

C3_Witness ==
    /\ StrictReturned
    /\ Len(code_data) = 3
    /\ Len(StrSplit(code_data[1], ".")) = 4
    /\ StrSplit(code_data[1], ".")[3] = <<"B">>
    /\ code_data[3] = code_data[1]
    /\ REGION \in ToSet(ret.cols)
    /\ \E i \in 1..Len(ret.rows) :
          /\ ret.rows[i].ISO3 = IND
          /\ ret.rows[i].cells[REGION] = <<"A", ",", "B">>

\* the (ISO3, group, value) triples of the rows of a long table
Triples(t) ==
    { <<t.rows[i]["ISO3"], t.rows[i]["group"], t.rows[i]["value"]>> :
        i \in 1..Len(t.rows) }

\* one triple per ISO3, per column, per comma-separated element of the cell
ReExpand(w) ==
    UNION { UNION { { <<w.rows[i].ISO3, g, v>> :
                        v \in IF IsNull(w.rows[i].cells[g]) THEN {}
                              ELSE ToSet(StrSplit(w.rows[i].cells[g], ",")) } :
                    g \in ToSet(w.cols) } :
            i \in 1..Len(w.rows) }

\* C4 as stated: re-expanding the returned wide table recovers exactly the
\* triples of the filtered long table.
C4_RoundTrip_AsStated ==
    StrictReturned => ReExpand(ret) = Triples(res_split)

\* the triples the returned table can hold: a row with an ISO3, of a column
\* that was kept
KeptTriples ==
    { t \in Triples(res_split) : ~IsNull(t[1]) /\ t[2] \in ToSet(ret.cols) }

\* C4 amended: re-expanding the returned wide table recovers exactly the
\* triples of the filtered rows that have an ISO3 and whose group is a
\* returned column, provided none of their values contains a ",".
C4_RoundTrip_KeptColumns ==
    (StrictReturned /\ \A t \in KeptTriples : "," \notin ToSet(t[3]))
        => ReExpand(ret) = KeptTriples

C4_Witness ==
    /\ StrictReturned
    /\ \A t \in KeptTriples : "," \notin ToSet(t[3])
    /\ Cardinality(KeptTriples) = 3
    /\ Len(ret.cols) >= 2
    /\ REGION \in ToSet(ret.cols)
    /\ \E i \in 1..Len(ret.rows) :
          ret.rows[i].cells[REGION] = <<"A", ",", "B">>

\* C8 as stated: get_wb_classifications fails with MalformedCodeError when a
\* flattened URN has fewer than 4 dot-segments, and otherwise returns one row
\* per URN with group, value, ISO3 the segments 1, 2, 3.
C8_MalformedUrnRaises ==
    (fn = "get_wb_classifications" /\ pc = "done" /\ code_data # <<>>) =>
        IF \E i \in 1..Len(code_data) : Len(StrSplit(code_data[i], ".")) < 4
        THEN raised = "MalformedCodeError"
        ELSE /\ raised = "none"
             /\ Len(ret.rows) = Len(code_data)
             /\ \A i \in 1..Len(code_data) :
                   LET seg == StrSplit(code_data[i], ".")
                   IN  /\ ret.rows[i]["group"] = seg[2]
                       /\ ret.rows[i]["value"] = seg[3]
                       /\ ret.rows[i]["ISO3"] = seg[4]

\* C9 as stated: no call issues more than one HTTP request.
C9_AtMostOneRequest == n_requests <= 1

\* C9 amended: get_wb_classifications issues one request; the strict variant
\* issues three, one after another, and none once the filtering has begun.
C9_RequestsPerFunction ==
    /\ fn = "none" => n_requests = 0
    /\ fn = "get_wb_classifications" =>
          IF pc = "fetch_ref" THEN n_requests = 0 ELSE n_requests = 1
    /\ fn = "get_wb_classifications_strict" =>
          /\ n_requests <= 3
          /\ pc \in {"filter", "pivot", "project"} => n_requests = 3
          /\ (pc = "done" /\ raised = "none") => n_requests = 3

C9_Witness ==
    StrictReturned /\ n_requests = 3 /\ Len(ret.rows) > 0

-----------------------------------------------------------------------------
(* merge_id_columns.  Column labels are str, because the output label is   *)
(* computed from the fallback's.                                           *)

P_CODE == <<"P">>
P_CODE_t == <<"P", "t">>
P_CODE_c == <<"P", "c">>

MergeColumns == {P_CODE, P_CODE_t, P_CODE_c}

\* what a cell of a column may hold: None, or a value of that column
MergeCells(c) == {NoneV, c \o <<"1">>}

RECURSIVE FramesOf(_, _)
FramesOf(cols, n) ==
    IF n = 0 THEN { [cols |-> cols, rows |-> <<>>] }
    ELSE { [cols |-> cols, rows |-> Append(f.rows, r)] :
             f \in FramesOf(cols, n - 1),
             r \in { r \in [cols -> UNION { MergeCells(c) : c \in cols }] :
                       \A c \in cols : r[c] \in MergeCells(c) } }

MergeFrames == UNION { FramesOf(MergeColumns, n) : n \in 1..MaxMergeRows }

ColDefInputs == { <<a, b>> : a \in MergeColumns, b \in MergeColumns }

\* in_df[c]
Column(df, c) == [i \in 1..Len(df.rows) |-> df.rows[i][c]]

\* in_df[c] = values
SetColumn(df, c, values) ==
    [cols |-> df.cols \cup {c},
     rows |-> [i \in 1..Len(df.rows) |->
                 [k \in df.cols \cup {c} |->
                    IF k = c THEN values[i] ELSE df.rows[i][k]]]]

\* in_df.drop(columns=names)
DropColumns(df, names) ==
    [cols |-> df.cols \ names,
     rows |-> [i \in 1..Len(df.rows) |->
                 [k \in df.cols \ names |-> df.rows[i][k]]]]

\* col_def[-1][:-1] + "c"
OutCol(pair) ==
    LET last == pair[Len(pair)]
    IN  (IF Len(last) = 0 THEN <<>> ELSE SubSeq(last, 1, Len(last) - 1))
        \o <<"c">>

\* a fillna that lets the fallback win
FillNa_FallbackFirst(a, b) ==
    [i \in 1..Len(a) |-> IF IsNull(b[i]) THEN a[i] ELSE b[i]]

\* fillna({out_col: fallback}): the fallback where the value is missing
FillNa(a, b) ==
    [i \in 1..Len(a) |-> IF IsNull(a[i]) THEN b[i] ELSE a[i]]

\* line 161
AssignPrimary(df, pair) == SetColumn(df, OutCol(pair), Column(df, pair[1]))

\* line 162, on the frame line 161 left
FillFromFallback(df, pair) ==
    SetColumn(df, OutCol(pair),
              FillNa(Column(df, OutCol(pair)), Column(df, pair[2])))

CallMerge ==
    /\ pc = "idle"
    /\ \E df \in MergeFrames : in_df' = df
    /\ \E b \in BOOLEAN : drop_orig' = b
    /\ fn' = "merge_id_columns"
    /\ pc' = "loop"
    /\ UNCHANGED <<raised, n_requests, type_to_keep, code_data, res_split,
                   region_codes, income_codes, wide, ret>>
    /\ UNCHANGED <<col_def, n_done, qaVars>>

\* lines 159-164: one iteration of "for col_def in col_defs"
MergePair ==
    /\ pc = "loop"
    /\ n_done < MaxPairs
    /\ \E pair \in ColDefInputs :
          /\ col_def' = pair
          /\ IF pair[1] \notin in_df.cols
             THEN /\ raised' = "KeyError"
                  /\ pc' = "done"
                  /\ UNCHANGED in_df
             ELSE IF pair[2] \notin AssignPrimary(in_df, pair).cols
             THEN /\ raised' = "KeyError"
                  /\ pc' = "done"
                  /\ in_df' = AssignPrimary(in_df, pair)
             ELSE /\ in_df' =
                        LET filled ==
                              FillFromFallback(AssignPrimary(in_df, pair), pair)
                        IN  IF drop_orig
                            THEN DropColumns(filled, ToSet(pair))
                            ELSE filled
                  /\ UNCHANGED <<raised, pc>>
    /\ n_done' = n_done + 1
    /\ UNCHANGED <<fn, n_requests, type_to_keep, code_data, res_split,
                   region_codes, income_codes, wide, ret>>
    /\ UNCHANGED <<drop_orig, qaVars>>

\* line 165: col_defs is exhausted
MergeReturn ==
    /\ pc = "loop"
    /\ ret' = in_df
    /\ pc' = "done"
    /\ UNCHANGED <<fn, raised, n_requests, type_to_keep, code_data, res_split,
                   region_codes, income_codes, wide>>
    /\ UNCHANGED <<mergeVars, qaVars>>

NextMerge == CallMerge \/ MergePair \/ MergeReturn

SpecMerge == Init /\ [][NextMerge]_vars

-----------------------------------------------------------------------------
(* Properties of merge_id_columns, stated over one iteration: in_df is the *)
(* frame before the pair col_def' is processed, in_df' the frame after.    *)

PairProcessed == pc = "loop" /\ n_done' = n_done + 1 /\ raised' = "none"

FullyPopulated(df, c) == \A i \in 1..Len(df.rows) : ~IsNull(df.rows[i][c])

EntirelyNull(df, c) == \A i \in 1..Len(df.rows) : IsNull(df.rows[i][c])

OutputIs(values) ==
    /\ OutCol(col_def') \in in_df'.cols
    /\ Column(in_df', OutCol(col_def')) = values

\* C5 as stated: for any column names and either drop_orig, a fully populated
\* primary gives an output equal to the primary, an entirely null primary an
\* output equal to the fallback.
C5_Coalesce_AsStated ==
    [][PairProcessed =>
         /\ FullyPopulated(in_df, col_def'[1]) =>
               OutputIs(Column(in_df, col_def'[1]))
         /\ EntirelyNull(in_df, col_def'[1]) =>
               OutputIs(Column(in_df, col_def'[2]))]_vars

\* drop_orig drops the output column when it bears the name of a source column
OutputKept(pair) == ~drop_orig \/ OutCol(pair) \notin ToSet(pair)

\* C5 amended: for a pair whose output column is not dropped with the source
\* columns, a fully populated primary gives an output equal to the primary
\* as it was; an entirely null primary gives an output equal to the fallback
\* as it was when the output name differs from the fallback's name.
C5_Coalesce_DistinctNames ==
    [][(PairProcessed /\ OutputKept(col_def')) =>
         /\ FullyPopulated(in_df, col_def'[1]) =>
               OutputIs(Column(in_df, col_def'[1]))
         /\ (EntirelyNull(in_df, col_def'[1])
               /\ OutCol(col_def') # col_def'[2]) =>
               OutputIs(Column(in_df, col_def'[2]))]_vars

C5_Witness ==
    /\ fn = "merge_id_columns"
    /\ pc = "loop"
    /\ raised = "none"
    /\ n_done = 1
    /\ ~drop_orig
    /\ col_def = <<P_CODE, P_CODE_t>>
    /\ Len(in_df.rows) = 2
    /\ FullyPopulated(in_df, P_CODE)
    /\ in_df.rows[1][P_CODE_t] = <<"P", "t", "1">>
    /\ IsNull(in_df.rows[2][P_CODE_t])
    /\ Column(in_df, P_CODE_c) = Column(in_df, P_CODE)

-----------------------------------------------------------------------------
(* check_duplicates and evaluate_duplicate_names, called one after another *)
(* in one process: sys.stdout and the files outlive a call.                *)
(*                                                                         *)
(* Stream 0 is the console.  A file object has an id in {1, 2}; the id of  *)
(* an object nothing refers to any more is free for the next open().       *)

QALabels == {"name", "parent"}

QARow(parent, name) == [c \in QALabels |-> IF c = "parent" THEN parent ELSE name]

QARowInputs ==
    { QARow(<<"A">>, <<"X">>), QARow(<<"A">>, <<"Y">>), QARow(<<"B">>, <<"Y">>),
      QARow(NoneV, <<"X">>), QARow(<<"A">>, NoneV) }

QAFrames ==
    { [cols |-> QALabels, rows |-> q] : q \in SeqsUpTo(QARowInputs, MaxQARows) }

\* column arguments: the label meant, or one the frame does not have
NameColArgs == {"name", "missing"}
ParentColArgs == {"parent", "missing"}

\* The calling script checks one data frame: the first call of a helper
\* fixes it, later calls are handed the same frame.
FrameArgs == IF in_df = EmptyFrame THEN QAFrames ELSE {in_df}

\* names bound at module level: the imports and the functions (lines 1-216)
ModuleGlobals ==
    { "sys", "os", "requests", "json", "gpd", "pd", "Point", "Polygon", "box",
      "shape", "get_wb_classifications", "get_wb_classifications_strict",
      "merge_id_columns", "check_duplicates", "evaluate_duplicate_names",
      "open_and_write_to_better_formats" }

\* Series.duplicated(): an occurrence after the first (None equals None)
DuplicatedKeepFirst(values) ==
    [k \in 1..Len(values) |-> \E j \in 1..(k - 1) : values[j] = values[k]]

\* Series.duplicated(keep=False): every occurrence of a repeated value
DuplicatedKeepFalse(values) ==
    [k \in 1..Len(values) |->
        \E j \in 1..Len(values) : j # k /\ values[j] = values[k]]

\* a mask taken with the default keep="first"
ReportMask_KeepFirst(values) == DuplicatedKeepFirst(values)

\* the mask of line 209
ReportMask(values) == DuplicatedKeepFalse(values)

\* the row numbers of one group of in_df.groupby(parent_col), in frame order
RECURSIVE GroupIndex(_, _, _, _)
GroupIndex(df, parent_col, label, from) ==
    IF from > Len(df.rows) THEN <<>>
    ELSE (IF df.rows[from][parent_col] = label THEN <<from>> ELSE <<>>)
         \o GroupIndex(df, parent_col, label, from + 1)

\* group labels in ascending order; rows with a missing label are in no group
GroupLabels(df, parent_col) ==
    Sorted({ df.rows[i][parent_col] : i \in 1..Len(df.rows) } \ {NoneV})

LogLine(kind, label, rows) == [kind |-> kind, label |-> label, rows |-> rows]

\* lines 207-209 for one group: the two print() calls, or nothing
GroupReport(df, name_col, parent_col, label) ==
    LET idx == GroupIndex(df, parent_col, label, 1)
        names == [k \in 1..Len(idx) |-> df.rows[idx[k]][name_col]]
        first == DuplicatedKeepFirst(names)
        mask == ReportMask(names)
        hit == SelectSeq([k \in 1..Len(idx) |-> k], LAMBDA k : mask[k])
    IN  IF \E k \in 1..Len(idx) : first[k]
        THEN << LogLine("found", label, <<>>),
                LogLine("frame", label,
                        [k \in 1..Len(hit) |->
                           [index |-> idx[hit[k]],
                            name |-> df.rows[idx[hit[k]]][name_col],
                            parent |-> df.rows[idx[hit[k]]][parent_col]]]) >>
        ELSE <<>>

\* lines 206-212: what the loop prints
RECURSIVE Reports(_, _, _, _)
Reports(df, name_col, parent_col, labels) ==
    IF Len(labels) = 0 THEN <<>>
    ELSE GroupReport(df, name_col, parent_col, labels[1])
         \o Reports(df, name_col, parent_col, Tail(labels))

\* open(log_file, 'w'): the lowest id no object holds
FreshHandle == CHOOSE h \in {1, 2} :
                  handles[h].state = "free"
                  /\ \A g \in {1, 2} : handles[g].state = "free" => h <= g

\* lines 201-205: keep sys.stdout, open (truncate) the log, write the two
\* header lines, point sys.stdout to the log
CallEvaluate ==
    /\ pc = "idle"
    /\ \E df \in FrameArgs : in_df' = df
    /\ \E name_col \in NameColArgs, parent_col \in ParentColArgs :
          /\ frame' = [name_col |-> name_col, parent_col |-> parent_col,
                       file |-> LogFile, original_stdout |-> sys_stdout,
                       log_fh |-> FreshHandle]
    /\ handles' = [handles EXCEPT ![FreshHandle] =
                      [state |-> "open", path |-> LogFile]]
    /\ files' = [files EXCEPT ![LogFile] =
                    [exists |-> TRUE,
                     data |-> << LogLine("header", NoneV, <<>>),
                                 LogLine("separator", NoneV, <<>>) >>]]
    /\ sys_stdout' = FreshHandle
    /\ fn' = "evaluate_duplicate_names"
    /\ raised' = "none"
    /\ pc' = "report"
    /\ UNCHANGED <<n_requests, type_to_keep, code_data, res_split,
                   region_codes, income_codes, wide, ret>>
    /\ UNCHANGED <<col_def, drop_orig, n_done>>

\* lines 206-212 and the end of the with block, which closes log_fh on every
\* exit.  groupby(parent_col) and group[name_col] raise KeyError for a label
\* the frame does not have; the exception leaves the function at once.
EvaluateReport ==
    /\ pc = "report"
    /\ LET missing ==
              \/ frame.parent_col \notin in_df.cols
              \/ /\ frame.name_col \notin in_df.cols
                 /\ Len(GroupLabels(in_df, frame.parent_col)) > 0
       IN  IF missing
           THEN /\ raised' = "KeyError"
                /\ pc' = "idle"
                /\ handles' =
                      [h \in {1, 2} |->
                         IF h = frame.log_fh
                         THEN [handles[h] EXCEPT !.state = "closed"]
                         ELSE IF h = sys_stdout THEN handles[h]
                         ELSE FreeHandle]
                /\ UNCHANGED files
           ELSE /\ files' =
                      [files EXCEPT ![handles[sys_stdout].path].data =
                         @ \o Reports(in_df, frame.name_col, frame.parent_col,
                                      GroupLabels(in_df, frame.parent_col))]
                /\ handles' = [handles EXCEPT ![frame.log_fh].state = "closed"]
                /\ pc' = "restore"
                /\ UNCHANGED raised
    /\ UNCHANGED <<fn, n_requests, type_to_keep, code_data, res_split,
                   region_codes, income_codes, wide, ret>>
    /\ UNCHANGED <<mergeVars, sys_stdout, frame>>

\* line 213; log_fh then goes out of scope
EvaluateRestore ==
    /\ pc = "restore"
    /\ sys_stdout' = frame.original_stdout
    /\ handles' = [handles EXCEPT ![frame.log_fh] = FreeHandle]
    /\ pc' = "idle"
    /\ UNCHANGED <<fn, raised, n_requests, type_to_keep, code_data, res_split,
                   region_codes, income_codes, wide, ret>>
    /\ UNCHANGED <<mergeVars, files, frame>>

\* print() to sys.stdout: a closed file object raises ValueError
PrintRaises == sys_stdout # 0 /\ handles[sys_stdout].state = "closed"

\* in_df[id_col].duplicated().sum()
DuplicateCount(df, id_col) ==
    Cardinality({ k \in 1..Len(df.rows) :
                    DuplicatedKeepFirst(Column(df, id_col))[k] })

\* lines 180-185.  Line 184 reads the global merged_adm1.
CheckDuplicates ==
    /\ pc = "idle"
    /\ \E df \in FrameArgs : in_df' = df
    /\ \E id_col \in NameColArgs :
          /\ frame' = [id_col |-> id_col, file |-> OutFile,
                       original_stdout |-> sys_stdout]
          /\ raised' =
                IF id_col \notin in_df'.cols THEN "KeyError"
                ELSE IF PrintRaises THEN "ValueError"
                ELSE IF DuplicateCount(in_df', id_col) > 0
                        /\ "merged_adm1" \notin ModuleGlobals
                     THEN "NameError"
                ELSE "none"
    /\ fn' = "check_duplicates"
    /\ UNCHANGED <<pc, n_requests, type_to_keep, code_data, res_split,
                   region_codes, income_codes, wide, ret>>
    /\ UNCHANGED <<col_def, drop_orig, n_done, sys_stdout, handles, files>>

NextQA == CallEvaluate \/ EvaluateReport \/ EvaluateRestore \/ CheckDuplicates

SpecQA == Init /\ [][NextQA]_vars

-----------------------------------------------------------------------------
(* Properties of the QA helpers.                                           *)

CheckDuplicatesEnded == pc = "idle" /\ fn = "check_duplicates"

\* the rows of in_df whose id occurs more than once, in frame order
RowsWithRepeatedId(id_col) ==
    SelectSeq(in_df.rows,
              LAMBDA r : Cardinality({ i \in 1..Len(in_df.rows) :
                                         in_df.rows[i][id_col] = r[id_col] }) > 1)

\* C6 as stated, for a call made while sys.stdout is the console: when the id
\* column of in_df holds a repeated value the call completes and out_file
\* holds exactly the rows of in_df whose id occurs more than once; when no
\* value repeats nothing is written.
C6_ExportsDuplicatesOfInDf ==
    (CheckDuplicatesEnded /\ frame.id_col \in in_df.cols
        /\ frame.original_stdout = 0) =>
        IF Len(RowsWithRepeatedId(frame.id_col)) > 0
        THEN /\ raised = "none"
             /\ files[frame.file].exists
             /\ files[frame.file].data = RowsWithRepeatedId(frame.id_col)
        ELSE ~files[frame.file].exists

EvaluateEnded == pc = "idle" /\ fn = "evaluate_duplicate_names"

EvaluateReturned == EvaluateEnded /\ raised = "none"

ParentLabels ==
    { in_df.rows[i][frame.parent_col] : i \in 1..Len(in_df.rows) } \ {NoneV}

\* the rows of parent group L whose name another row of the group bears too
RepeatedInGroup(L) ==
    { i \in 1..Len(in_df.rows) :
        /\ in_df.rows[i][frame.parent_col] = L
        /\ \E j \in 1..Len(in_df.rows) :
              /\ j # i
              /\ in_df.rows[j][frame.parent_col] = L
              /\ in_df.rows[j][frame.name_col] = in_df.rows[i][frame.name_col] }

C10_StdoutRestored ==
    EvaluateEnded => sys_stdout = frame.original_stdout

=============================================================================
